---------------------------- MODULE Spec2Model ----------------------------
(***************************************************************************)
(* Aho-Corasick matcher of tonyjt/ahocorasick (ahocorasick.go).            *)
(*                                                                         *)
(* A Matcher is built once from a dictionary of byte patterns (buildTrie)  *)
(* and then serves Match, Re2 and Replace calls.  The only state a call    *)
(* leaves behind is Matcher.counter and the per-node counter stamps.       *)
(*                                                                         *)
(* Bytes are integers 0..255, byte strings are sequences of bytes.  Go     *)
(* indexes the node arena from 0; here the arena is a sequence, so the    *)
(* node Go calls trie[i] is trie[i+1], and the nil pointer is Nil.  Input  *)
(* offsets, dictionary indexes and reported positions keep Go's 0-based    *)
(* values.                                                                 *)
(***************************************************************************)
EXTENDS Integers, Sequences, FiniteSets, TLC

\* ------------------------------------------------------------------ bounds
\* A Match call on a fresh Matcher (SpecMatch).
MaxDict == 2        \* patterns in a dictionary
MaxDictBytes == 4   \* bytes in the patterns of a dictionary, all together
MaxInLen == 3       \* bytes in an input
\* A Match call taken one memory access at a time (SpecScan).
ScanDict == 3       \* patterns in its dictionary
ScanNodes == 3      \* nodes of its trie besides the root
ScanInLen == 3      \* bytes in its input
\* A Matcher whose patterns are suffixes of one another (SpecChain).
ChainDict == 3      \* patterns in its dictionary
ChainNodes == 3     \* nodes of its trie besides the root
ChainInLen == 1     \* bytes in an input
\* A first call of any kind on a fresh Matcher (SpecFirst).
FirstDict == 1      \* patterns in its dictionary
FirstDictBytes == 2 \* bytes in the patterns, all together
FirstInLen == 4     \* bytes in an input
\* A first Replace call that reports its hits (SpecReport, SpecIndexWord).
ReportDict == 2     \* patterns in its dictionary
ReportDictBytes == 3   \* bytes in the patterns, all together
ReportInLen == 4    \* bytes in an input
\* A sequence of calls on one Matcher (Spec), two calls at once (SpecConc).
MaxCalls == 2       \* calls made on the Matcher
SessionDict == 1    \* patterns in its dictionary
SessionDictBytes == 1  \* bytes in the patterns, all together
SessionInLen == 1   \* bytes in an input of a call of the sequence
ConcInLen == 2      \* bytes in the input of the first of the two calls

\* ------------------------------------------------------------ hit types
EnumHitTypeNone == 0
EnumHitTypeWord == 1
EnumHitTypeWordCount == 2
EnumHitTypeWordIndex == 3
EnumHitTypeIndexWord == 4

\* ---------------------------------------------------------------- bytes
\* The byte values that occur in patterns and inputs: 'a' and the two bytes
\* of the UTF-8 encoding of U+00E9 (0xC3 0xA9), in every order: a pattern or
\* an input is any byte string, text or not.  ByteOrder lists the bytes in
\* the order `for i := 0; i < 256; i++` meets them.
Bytes == {97, 169, 195}
ByteOrder == <<97, 169, 195>>

\* The replacement token "*": a byte that occurs in no input.
Replacers == {<<42>>}

Nil == 0
Root == 1

\* ------------------------------------------------------ utf8.RuneCount
\* Width of the encoding that starts at p[i], as unicode/utf8 decodes it:
\* an ASCII byte is one rune; a lead byte followed by the continuation
\* bytes its accept range allows is one rune of 2, 3 or 4 bytes; any other
\* byte (a stray continuation byte, a truncated or invalid sequence) is one
\* rune of width 1.
IsCont(p, i) == i <= Len(p) /\ p[i] >= 128 /\ p[i] <= 191

RuneWidth(p, i) ==
    LET c == p[i]
        size == IF c < 128 THEN 1
                ELSE IF c >= 194 /\ c <= 223 THEN 2
                ELSE IF c >= 224 /\ c <= 239 THEN 3
                ELSE IF c >= 240 /\ c <= 244 THEN 4
                ELSE 1
        lo == IF c = 224 THEN 160 ELSE IF c = 240 THEN 144 ELSE 128
        hi == IF c = 237 THEN 159 ELSE IF c = 244 THEN 143 ELSE 191
    IN  IF size = 1 THEN 1
        ELSE IF i + size - 1 > Len(p) THEN 1
        ELSE IF p[i+1] < lo \/ p[i+1] > hi THEN 1
        ELSE IF size = 2 THEN 2
        ELSE IF ~IsCont(p, i+2) THEN 1
        ELSE IF size = 3 THEN 3
        ELSE IF ~IsCont(p, i+3) THEN 1
        ELSE 4

RECURSIVE RuneCountFrom(_, _)
RuneCountFrom(p, i) ==
    IF i > Len(p) THEN 0 ELSE 1 + RuneCountFrom(p, i + RuneWidth(p, i))

RuneCount(p) == RuneCountFrom(p, 1)

\* ------------------------------------------------- patterns and inputs
\* The byte strings of up to n bytes: what []byte(inStr) and a dictionary
\* entry can be.
ByteStrings(n) == UNION {[1..k -> Bytes] : k \in 0..n}

\* The dictionaries of up to n patterns that hold up to b bytes together.
RECURSIVE DictionariesOf(_, _)
DictionariesOf(n, b) ==
    IF n = 0 THEN {<<>>}
    ELSE {<<>>} \cup
         UNION {{<<p>> \o d : d \in DictionariesOf(n - 1, b - Len(p))} :
                   p \in ByteStrings(b)}

\* The non-empty prefixes of p: the trie nodes the insertion of p passes.
Prefixes(p) == {SubSeq(p, 1, k) : k \in 1..Len(p)}

\* The dictionaries of up to n patterns over the byte values B that, put
\* into a trie that holds the nodes `used`, leave it with up to m nodes
\* besides the root.
RECURSIVE DictionariesWithin(_, _, _, _)
DictionariesWithin(B, n, m, used) ==
    IF n = 0 THEN {<<>>}
    ELSE {<<>>} \cup
         UNION {{<<p>> \o d :
                    d \in DictionariesWithin(B, n - 1, m, used \cup Prefixes(p))} :
                   p \in {q \in UNION {[1..k -> B] : k \in 0..m} :
                             Cardinality(used \cup Prefixes(q)) <= m}}

\* The two byte values of the patterns and inputs of the stepwise scan,
\* which compares bytes and never decodes them.
ScanBytes == {97, 195}

Dictionaries == DictionariesOf(MaxDict, MaxDictBytes)
Inputs == ByteStrings(MaxInLen)
ScanInputs == UNION {[1..k -> ScanBytes] : k \in 0..ScanInLen}
ChainInputs == ByteStrings(ChainInLen)
FirstDictionaries == DictionariesOf(FirstDict, FirstDictBytes)
FirstInputs == ByteStrings(FirstInLen)
ReportDictionaries == DictionariesOf(ReportDict, ReportDictBytes)
ReportInputs == ByteStrings(ReportInLen)
SessionDictionaries == DictionariesOf(SessionDict, SessionDictBytes)
SessionInputs == ByteStrings(SessionInLen)
ConcInputs == ByteStrings(ConcInLen)
HitTypes == -1..5

\* ------------------------------------------------------------------ node
\* type node: child and fails are indexed by byte value; suffix, fail and
\* the entries of child and fails are arena indexes or Nil.
NewNode ==
    [root |-> FALSE, b |-> <<>>, output |-> FALSE, index |-> 0, counter |-> 0,
     child |-> [c \in Bytes |-> Nil], fails |-> [c \in Bytes |-> Nil],
     suffix |-> Nil, fail |-> Nil]

\* findBlice: walk the child pointers from the root along b.
RECURSIVE findFrom(_, _, _)
findFrom(t, n, b) ==
    IF n # Nil /\ Len(b) > 0 THEN findFrom(t, t[n].child[Head(b)], Tail(b)) ELSE n

findBlice(t, b) == findFrom(t, Root, b)

\* Go's b[j:] for a 0-based j.
From(b, j) == SubSeq(b, j + 1, Len(b))

\* Mutant: the arena is sized without the slot of the root.
ArenaSizeNoRoot(dictionary) ==
    LET RECURSIVE Sum(_)
        Sum(i) == IF i > Len(dictionary) THEN 0 ELSE Len(dictionary[i]) + Sum(i + 1)
    IN  Sum(1)

\* The arena make([]node, max) of buildTrie.
ArenaSize(dictionary) ==
    LET RECURSIVE Sum(_)
        Sum(i) == IF i > Len(dictionary) THEN 0 ELSE Len(dictionary[i]) + Sum(i + 1)
    IN  1 + Sum(1)

\* The inner loop of the insertion: bytes k.. of blice below node n.  A
\* missing child is taken from the arena (getFreeNode: the next free slot).
RECURSIVE insertBytes(_, _, _, _)
insertBytes(t, n, blice, k) ==
    IF k > Len(blice) THEN [trie |-> t, n |-> n]
    ELSE LET b == blice[k]
             c == t[n].child[b]
         IN  IF c = Nil
             THEN LET new == Len(t) + 1
                      made == [NewNode EXCEPT !.b = SubSeq(blice, 1, k),
                                              !.fail = IF k = 1 THEN Root ELSE Nil,
                                              !.suffix = Root]
                  IN  insertBytes(Append([t EXCEPT ![n].child[b] = new], made),
                                  new, blice, k + 1)
             ELSE insertBytes(t, c, blice, k + 1)

\* Mutant: a node that is already an output node keeps its first index.
RECURSIVE insertAllFirst(_, _, _)
insertAllFirst(t, dictionary, i) ==
    IF i > Len(dictionary) THEN t
    ELSE LET r == insertBytes(t, Root, dictionary[i], 1)
         IN  insertAllFirst(IF r.trie[r.n].output THEN r.trie
                            ELSE [r.trie EXCEPT ![r.n].output = TRUE, ![r.n].index = i - 1],
                            dictionary, i + 1)

\* The insertion loop over the dictionary: the last node of entry i becomes
\* an output node with index i (0-based).
RECURSIVE insertAll(_, _, _)
insertAll(t, dictionary, i) ==
    IF i > Len(dictionary) THEN t
    ELSE LET r == insertBytes(t, Root, dictionary[i], 1)
         IN  insertAll([r.trie EXCEPT ![r.n].output = TRUE, ![r.n].index = i - 1],
                       dictionary, i + 1)

\* Mutant: the search keeps going and ends on the shortest suffix found.
RECURSIVE failLoopShortest(_, _, _, _)
failLoopShortest(t, b, j, cur) ==
    IF j >= Len(b) THEN cur
    ELSE LET r == findBlice(t, From(b, j))
         IN  failLoopShortest(t, b, j + 1, IF r # Nil THEN r ELSE cur)

\* c.fail: the first suffix b[j:], j = 1.., that findBlice finds.
RECURSIVE failLoop(_, _, _, _)
failLoop(t, b, j, cur) ==
    IF j >= Len(b) THEN cur
    ELSE LET r == findBlice(t, From(b, j))
         IN  IF r # Nil THEN r ELSE failLoop(t, b, j + 1, r)

failOf(t, c) ==
    LET r == failLoop(t, t[c].b, 1, t[c].fail)
    IN  IF r = Nil THEN Root ELSE r

\* Mutant: the search keeps going after an output node is found and ends
\* on the shortest suffix that is one.
RECURSIVE suffixLoopShortest(_, _, _, _)
suffixLoopShortest(t, b, j, cur) ==
    IF j >= Len(b) THEN cur
    ELSE LET s == findBlice(t, From(b, j))
         IN  suffixLoopShortest(t, b, j + 1, IF s # Nil /\ t[s].output THEN s ELSE cur)

\* c.suffix: the first suffix b[j:], j = 1.., that is an output node.
RECURSIVE suffixLoop(_, _, _, _)
suffixLoop(t, b, j, cur) ==
    IF j >= Len(b) THEN cur
    ELSE LET s == findBlice(t, From(b, j))
         IN  IF s # Nil /\ t[s].output THEN s ELSE suffixLoop(t, b, j + 1, cur)

suffixOf(t, c) == suffixLoop(t, t[c].b, 1, t[c].suffix)

\* The children of node n, bytes ByteOrder[k].. : each is queued and linked.
RECURSIVE linkChildren(_, _, _, _)
linkChildren(t, q, n, k) ==
    IF k > Len(ByteOrder) THEN [trie |-> t, queue |-> q]
    ELSE LET c == t[n].child[ByteOrder[k]]
         IN  IF c = Nil THEN linkChildren(t, q, n, k + 1)
             ELSE linkChildren([t EXCEPT ![c].fail = failOf(t, c),
                                         ![c].suffix = suffixOf(t, c)],
                               Append(q, c), n, k + 1)

\* The breadth-first loop over the list l.
RECURSIVE linkAll(_, _)
linkAll(t, q) ==
    IF Len(q) = 0 THEN t
    ELSE LET r == linkChildren(t, Tail(q), Head(q), 1)
         IN  linkAll(r.trie, r.queue)

\* Mutant: a node without a child for c falls back to the root at once.
failsWalkRoot(t, n, c) ==
    IF t[n].child[c] = Nil /\ ~t[n].root THEN Root ELSE n

\* fails[c] of node n: follow fail until a node has a child for c or is the
\* root.
RECURSIVE failsWalk(_, _, _)
failsWalk(t, n, c) ==
    IF t[n].child[c] = Nil /\ ~t[n].root THEN failsWalk(t, t[n].fail, c) ELSE n

computeFails(t) ==
    [i \in DOMAIN t |-> [t[i] EXCEPT !.fails = [c \in Bytes |-> failsWalk(t, i, c)]]]

buildTrie(dictionary) ==
    LET root == [NewNode EXCEPT !.root = TRUE]
        built == insertAll(<<root>>, dictionary, 1)
    IN  computeFails(linkAll(built, <<Root>>))

\* ----------------------------------------------------------------- Match
\* Mutant: Match forgets to advance the call counter.
MatchCounterStuck(c) == c

\* m.counter += 1 at the head of Match and of Replace.
MatchCounter(c) == c + 1

ReplaceCounter(c) == c + 1

\* Mutant: the stamp is never consulted, every visit reports.
UnstampedAlways(t, f, cnt) == TRUE

\* The test `f.counter != m.counter`: f has not been reported in this call.
Unstamped(t, f, cnt) == t[f].counter # cnt

\* Mutant: a mismatch stays in the node instead of going to fails[c].
advanceStay(t, n, c) == n

\* The move on byte c from node n: a non-root node without a child for c
\* goes to fails[c] first.
advance(t, n, c) ==
    IF ~t[n].root /\ t[n].child[c] = Nil THEN t[n].fails[c] ELSE n

\* Mutant: no node has a suffix link to walk to.
suffixStepNone(t, f) == Nil

\* `for !f.suffix.root { f = f.suffix`: the next node of the walk, Nil when
\* the suffix link is the root.
suffixStep(t, f) == IF t[t[f].suffix].root THEN Nil ELSE t[f].suffix

\* The walk `for !f.suffix.root` of Match: report and stamp each suffix node
\* not yet stamped in this call, stop at the first stamped one.
RECURSIVE matchSuffixes(_, _, _, _)
matchSuffixes(t, f, hits, cnt) ==
    LET s == suffixStep(t, f)
    IN  IF s = Nil THEN [trie |-> t, hits |-> hits]
        ELSE IF Unstamped(t, s, cnt)
             THEN matchSuffixes([t EXCEPT ![s].counter = cnt], s,
                                Append(hits, t[s].index), cnt)
             ELSE [trie |-> t, hits |-> hits]

\* Mutant: the suffix links are walked before the node reached is reported.
matchStepSuffixFirst(t, n, hits, c, cnt) ==
    LET n1 == advance(t, n, c)
        f == t[n1].child[c]
    IN  IF f = Nil THEN [trie |-> t, n |-> n1, hits |-> hits]
        ELSE LET r == matchSuffixes(t, f, hits, cnt)
                 own == t[f].output /\ Unstamped(r.trie, f, cnt)
             IN  [trie |-> IF own THEN [r.trie EXCEPT ![f].counter = cnt] ELSE r.trie,
                  n |-> f,
                  hits |-> IF own THEN Append(r.hits, t[f].index) ELSE r.hits]

\* One pass of the scan loop of Match, on input byte c in node n: the move,
\* the report of the node reached, the walk over its suffix links.
matchStep(t, n, hits, c, cnt) ==
    LET n1 == advance(t, n, c)
        f == t[n1].child[c]
    IN  IF f = Nil THEN [trie |-> t, n |-> n1, hits |-> hits]
        ELSE LET own == t[f].output /\ Unstamped(t, f, cnt)
                 t1 == IF own THEN [t EXCEPT ![f].counter = cnt] ELSE t
                 h1 == IF own THEN Append(hits, t[f].index) ELSE hits
                 r == matchSuffixes(t1, f, h1, cnt)
             IN  [trie |-> r.trie, n |-> f, hits |-> r.hits]

\* The scan loop of Match from input byte k (1-based) in node n.
RECURSIVE matchLoop(_, _, _, _, _, _)
matchLoop(t, n, hits, in, k, cnt) ==
    IF k > Len(in) THEN [trie |-> t, hits |-> hits]
    ELSE LET r == matchStep(t, n, hits, in[k], cnt)
         IN  matchLoop(r.trie, r.n, r.hits, in, k + 1, cnt)

\* Match on a Matcher with arena t and counter c: the hits and the arena
\* with the stamps the call leaves.
MatchCall(t, c, in) == matchLoop(t, Root, <<>>, in, 1, MatchCounter(c))

\* --------------------------------------------------------------- Replace
\* Mutant: an assignment to a key already present keeps the old value.
PutFirst(m, k, v) == [x \in DOMAIN m \cup {k} |-> IF x \in DOMAIN m THEN m[x] ELSE v]

\* A Go map as a function on its keys; m[k] = v adds or overwrites.
Put(m, k, v) == [x \in DOMAIN m \cup {k} |-> IF x = k THEN v ELSE m[x]]

\* Mutant: hit type None is accepted without isReplace.
HitTypeErrorLax(hitType, isReplace) ==
    IF hitType \in EnumHitTypeNone..EnumHitTypeIndexWord THEN "nil"
    ELSE "hit type not support"

\* The hit-type checks at the head of Replace.
HitTypeError(hitType, isReplace) ==
    IF hitType = EnumHitTypeNone
    THEN IF ~isReplace THEN "match not support hittype none" ELSE "nil"
    ELSE IF hitType \in {EnumHitTypeWord, EnumHitTypeWordCount,
                         EnumHitTypeWordIndex, EnumHitTypeIndexWord}
         THEN "nil"
         ELSE "hit type not support"

\* Mutant: every hit type leaves out a node already reported in this call.
mustReportOnce(t, f, hitType, cnt) == Unstamped(t, f, cnt)

\* The test `hitType != EnumHitTypeWord || f.counter != m.counter`: only the
\* word list leaves out a node already reported in this call.
mustReport(t, f, hitType, cnt) ==
    hitType # EnumHitTypeWord \/ Unstamped(t, f, cnt)

\* Mutant: the position is the byte offset of the word.
RunePosBytes(in, k, word) == k - Len(word)

\* The reported position of the word of node f that ends at input byte k
\* (1-based): utf8.RuneCount(in[:i+1]) - utf8.RuneCount(f.b).
RunePos(in, k, word) == RuneCount(SubSeq(in, 1, k)) - RuneCount(word)

\* The body that reports node f under the hit type and stamps it.
report(acc, f, in, k, hitType, cnt) ==
    LET t == acc.trie
        w == t[f].b
        rep == acc.report
        rep1 == IF hitType = EnumHitTypeWord THEN Append(rep, w)
                ELSE IF hitType = EnumHitTypeWordCount
                     THEN Put(rep, w, (IF w \in DOMAIN rep THEN rep[w] ELSE 0) + 1)
                ELSE IF hitType = EnumHitTypeWordIndex
                     THEN Put(rep, w, Append(IF w \in DOMAIN rep THEN rep[w] ELSE <<>>,
                                             RunePos(in, k, w)))
                ELSE IF hitType = EnumHitTypeIndexWord
                     THEN Put(rep, RunePos(in, k, w), w)
                ELSE rep
    IN  [acc EXCEPT !.report = rep1, !.trie = [t EXCEPT ![f].counter = cnt]]

\* hits[i-len(f.b)+1] = f.b for an output node when replacing.
span(acc, f, k, isReplace) ==
    IF acc.trie[f].output /\ isReplace
    THEN [acc EXCEPT !.hits = Put(acc.hits, k - Len(acc.trie[f].b), acc.trie[f].b)]
    ELSE acc

\* The walk `for !f.suffix.root` of Replace.
RECURSIVE replaceSuffixes(_, _, _, _, _, _, _)
replaceSuffixes(acc, f, in, k, isReplace, hitType, cnt) ==
    LET s == acc.trie[f].suffix
    IN  IF acc.trie[s].root THEN acc
        ELSE LET a1 == span(acc, s, k, isReplace)
             IN  IF mustReport(a1.trie, s, hitType, cnt)
                 THEN replaceSuffixes(report(a1, s, in, k, hitType, cnt),
                                      s, in, k, isReplace, hitType, cnt)
                 ELSE a1

\* The scan loop of Replace from input byte k (1-based) in node n.
RECURSIVE replaceLoop(_, _, _, _, _, _, _)
replaceLoop(acc, n, in, k, isReplace, hitType, cnt) ==
    IF k > Len(in) THEN acc
    ELSE LET c == in[k]
             n1 == advance(acc.trie, n, c)
             f == acc.trie[n1].child[c]
         IN  IF f = Nil THEN replaceLoop(acc, n1, in, k + 1, isReplace, hitType, cnt)
             ELSE LET a1 == span(acc, f, k, isReplace)
                      a2 == IF a1.trie[f].output /\ mustReport(a1.trie, f, hitType, cnt)
                            THEN report(a1, f, in, k, hitType, cnt)
                            ELSE a1
                      a3 == replaceSuffixes(a2, f, in, k, isReplace, hitType, cnt)
                  IN  replaceLoop(a3, f, in, k + 1, isReplace, hitType, cnt)

\* sort.Ints over the keys of hits.
RECURSIVE sortInts(_)
sortInts(S) ==
    IF S = {} THEN <<>>
    ELSE LET m == CHOOSE x \in S : \A y \in S : x <= y
         IN  <<m>> \o sortInts(S \ {m})

\* The replacer written lenWord times.
RECURSIVE repeat(_, _)
repeat(replacer, n) == IF n <= 0 THEN <<>> ELSE replacer \o repeat(replacer, n - 1)

\* The loop over the sorted keys: out and lastIndex after keys j.. .
RECURSIVE applyHits(_, _, _, _, _, _, _)
applyHits(in, replacer, hits, keys, j, lastIndex, out) ==
    IF j > Len(keys) THEN [out |-> out, lastIndex |-> lastIndex]
    ELSE LET index == keys[j]
             word == hits[index]
             copied == IF index > lastIndex
                       THEN out \o SubSeq(in, lastIndex + 1, index)
                       ELSE out
         IN  applyHits(in, replacer, hits, keys, j + 1, index + Len(word),
                       copied \o repeat(replacer, RuneCount(word)))

\* The copy of the input that follows the last replaced word.
tail(in, lastIndex, out) ==
    IF lastIndex < Len(in) - 1 THEN out \o SubSeq(in, lastIndex + 1, Len(in)) ELSE out

\* The result text of Replace.
buildOut(in, replacer, hits, isReplace) ==
    IF isReplace
    THEN LET r == applyHits(in, replacer, hits, sortInts(DOMAIN hits), 1, 0, <<>>)
         IN  tail(in, r.lastIndex, r.out)
    ELSE <<>>

\* Replace on a Matcher with arena t and counter c.  hits is the map of
\* the spans to replace; report.nil tells a nil interface from a report.
ReplaceCall(t, c, in, replacer, isReplace, hitType) ==
    LET cnt == ReplaceCounter(c)
        err == HitTypeError(hitType, isReplace)
    IN  IF err # "nil"
        THEN [trie |-> t, out |-> <<>>, hits |-> <<>>,
              report |-> [nil |-> TRUE, val |-> <<>>], err |-> err]
        ELSE LET a == replaceLoop([trie |-> t, hits |-> <<>>, report |-> <<>>],
                                  Root, in, 1, isReplace, hitType, cnt)
             IN  [trie |-> a.trie,
                  out |-> buildOut(in, replacer, a.hits, isReplace),
                  hits |-> a.hits,
                  report |-> [nil |-> hitType = EnumHitTypeNone, val |-> a.report],
                  err |-> "nil"]

\* ------------------------------------------------------------------ Re2
\* strings.Replace(s, old, new, -1).  With an empty old, new is written
\* before every rune of s and after the last one.
RECURSIVE insertAtRunes(_, _, _)
insertAtRunes(s, new, i) ==
    IF i > Len(s) THEN new
    ELSE LET j == i + RuneWidth(s, i)
         IN  new \o SubSeq(s, i, j - 1) \o insertAtRunes(s, new, j)

\* With a non-empty old, the occurrences of old are found from the left,
\* each search starting after the previous occurrence (start is the offset
\* the search resumes at), and the bytes between them are copied.
RECURSIVE replaceFrom(_, _, _, _)
replaceFrom(s, old, new, start) ==
    LET found == {j \in start..(Len(s) - Len(old)) : SubSeq(s, j + 1, j + Len(old)) = old}
    IN  IF found = {} THEN SubSeq(s, start + 1, Len(s))
        ELSE LET j == CHOOSE x \in found : \A y \in found : x <= y
             IN  SubSeq(s, start + 1, j) \o new \o replaceFrom(s, old, new, j + Len(old))

stringsReplace(s, old, new) ==
    IF old = new THEN s
    ELSE IF old = <<>> THEN insertAtRunes(s, new, 1)
    ELSE replaceFrom(s, old, new, 0)

\* `for _, h := range hits`: the string after the hits from the j-th on
\* have been replaced in it.
RECURSIVE re2Loop(_, _, _, _, _)
re2Loop(d, in, replacer, hits, j) ==
    IF j > Len(hits) THEN in
    ELSE LET word == d[hits[j] + 1]
         IN  re2Loop(d, stringsReplace(in, word, repeat(replacer, RuneCount(word))),
                     replacer, hits, j + 1)

Re2Call(t, c, d, in, replacer) ==
    LET r == MatchCall(t, c, in)
    IN  [trie |-> r.trie, hits |-> r.hits, out |-> re2Loop(d, in, replacer, r.hits, 1)]

\* ----------------------------------------------------------------- state
VARIABLES
    dictionary,   \* Matcher.dictionary
    trie,         \* Matcher.trie, the node arena
    counter,      \* Matcher.counter
    ret,          \* the last call on the Matcher and what it returned
    calls         \* the Match calls in progress, one frame per goroutine

vars == <<dictionary, trie, counter, ret, calls>>

\* The goroutines that call Match on the one Matcher.
Threads == {1, 2}

\* The frame of a goroutine that has not called Match.
Idle == [pc |-> "idle", in |-> <<>>, k |-> 0, n |-> Root, f |-> Root, own |-> FALSE,
         hits |-> <<>>, tmp |-> 0, overlap |-> FALSE]

NoCall ==
    [op |-> "none", in |-> <<>>, replacer |-> <<>>, isReplace |-> FALSE, hitType |-> 0,
     hits |-> <<>>, out |-> <<>>, spans |-> <<>>,
     report |-> [nil |-> TRUE, val |-> <<>>], err |-> "nil"]

\* NewMatcher / NewStringMatcher on dictionary d.
NewMatcher(d) ==
    /\ dictionary = d
    /\ trie = buildTrie(d)
    /\ counter = 0
    /\ ret = NoCall
    /\ calls = [p \in Threads |-> Idle]

Match(in) ==
    /\ \E r \in {MatchCall(trie, counter, in)} :
           /\ trie' = r.trie
           /\ ret' = [NoCall EXCEPT !.op = "Match", !.in = in, !.hits = r.hits]
    /\ counter' = MatchCounter(counter)
    /\ UNCHANGED <<dictionary, calls>>

Replace(in, replacer, isReplace, hitType) ==
    /\ \E r \in {ReplaceCall(trie, counter, in, replacer, isReplace, hitType)} :
           /\ trie' = r.trie
           /\ ret' = [NoCall EXCEPT !.op = "Replace", !.in = in, !.replacer = replacer,
                                    !.isReplace = isReplace, !.hitType = hitType,
                                    !.out = r.out, !.spans = r.hits,
                                    !.report = r.report, !.err = r.err]
    /\ counter' = ReplaceCounter(counter)
    /\ UNCHANGED <<dictionary, calls>>

\* Re2: Match on the bytes of the input string, then, hit by hit in the
\* order Match returned them, every occurrence of the hit's pattern in the
\* string so far replaced by one replacer per codepoint of the pattern.
Re2(in, replacer) ==
    /\ \E r \in {Re2Call(trie, counter, dictionary, in, replacer)} :
           /\ trie' = r.trie
           /\ ret' = [NoCall EXCEPT !.op = "Re2", !.in = in, !.replacer = replacer,
                                    !.hits = r.hits, !.out = r.out]
    /\ counter' = MatchCounter(counter)
    /\ UNCHANGED <<dictionary, calls>>

\* A Matcher that serves up to MaxCalls calls, one after the other.
Init == \E d \in SessionDictionaries : NewMatcher(d)

Next ==
    \/ /\ counter < MaxCalls
       /\ \E in \in SessionInputs : Match(in)
    \/ /\ counter < MaxCalls
       /\ \E in \in SessionInputs, replacer \in Replacers : Re2(in, replacer)
    \/ /\ counter < MaxCalls
       /\ \E in \in SessionInputs, replacer \in Replacers, isReplace \in BOOLEAN,
             hitType \in HitTypes : Replace(in, replacer, isReplace, hitType)

Spec == Init /\ [][Next]_vars

\* A fresh Matcher and the first call made on it.
InitFirst == \E d \in FirstDictionaries : NewMatcher(d)

NextFirst ==
    \/ /\ counter = 0
       /\ \E in \in FirstInputs : Match(in)
    \/ /\ counter = 0
       /\ \E in \in FirstInputs, replacer \in Replacers : Re2(in, replacer)
    \/ /\ counter = 0
       /\ \E in \in FirstInputs, replacer \in Replacers, isReplace \in BOOLEAN,
             hitType \in HitTypes : Replace(in, replacer, isReplace, hitType)

SpecFirst == InitFirst /\ [][NextFirst]_vars

\* A fresh Matcher over a larger dictionary and a Match call on it.
InitMatch == \E d \in Dictionaries : NewMatcher(d)

NextMatch ==
    /\ counter = 0
    /\ \E in \in Inputs : Match(in)

SpecMatch == InitMatch /\ [][NextMatch]_vars

\* Match as the goroutines run it: one action for each access to the
\* memory they share, m.counter and the stamps of the nodes.  The frame of
\* goroutine p holds its locals: the input, the position k, the node n, the
\* node f under test, the hits, and tmp, the value last read from shared
\* memory.  own tells the test of the node reached from the tests of the
\* suffix walk.  overlap records that another call was in progress at some
\* moment of this one.
InCall(p) == calls[p].pc \notin {"idle", "done"}

\* The frame at the head of the next pass (f and tmp are dead there), and
\* the frame after the visit of node fr.f: the walk goes on to its suffix
\* link (`for !f.suffix.root { f = f.suffix`), or the pass is over.
pass(fr) == [fr EXCEPT !.pc = "scan", !.k = fr.k + 1,
                       !.f = Idle.f, !.own = Idle.own, !.tmp = Idle.tmp]

walk(fr) ==
    LET s == suffixStep(trie, fr.f)
    IN  IF s = Nil THEN pass(fr) ELSE [fr EXCEPT !.pc = "test", !.f = s, !.own = FALSE]

\* The entry of goroutine p: the read of `m.counter += 1`.
Begin(p, in) ==
    /\ calls[p].pc = "idle"
    /\ calls' = [q \in Threads |->
                    IF q = p
                    THEN [Idle EXCEPT !.pc = "add", !.in = in, !.k = 1, !.tmp = counter,
                                      !.overlap = \E o \in Threads \ {p} : InCall(o)]
                    ELSE IF InCall(q) THEN [calls[q] EXCEPT !.overlap = TRUE]
                    ELSE calls[q]]
    /\ UNCHANGED <<dictionary, trie, counter, ret>>

\* The write of `m.counter += 1`.
Add(p) ==
    /\ calls[p].pc = "add"
    /\ counter' = MatchCounter(calls[p].tmp)
    /\ calls' = [calls EXCEPT ![p].pc = "scan", ![p].tmp = Idle.tmp]
    /\ UNCHANGED <<dictionary, trie, ret>>

\* The head of a pass: the move on the next input byte.  An output node
\* reached is tested next; any other node reached starts the suffix walk.
Move(p) ==
    /\ calls[p].pc = "scan"
    /\ calls[p].k <= Len(calls[p].in)
    /\ LET n1 == advance(trie, calls[p].n, calls[p].in[calls[p].k])
           f == trie[n1].child[calls[p].in[calls[p].k]]
       IN  calls' = [calls EXCEPT ![p] =
                        IF f = Nil THEN [@ EXCEPT !.n = n1, !.k = @ + 1]
                        ELSE IF trie[f].output
                             THEN [@ EXCEPT !.n = f, !.f = f, !.own = TRUE, !.pc = "test"]
                             ELSE walk([@ EXCEPT !.n = f, !.f = f])]
    /\ UNCHANGED <<dictionary, trie, counter, ret>>

\* `f.counter != m.counter`: the read of f.counter.
Test(p) ==
    /\ calls[p].pc = "test"
    /\ calls' = [calls EXCEPT ![p].tmp = trie[calls[p].f].counter, ![p].pc = "compare"]
    /\ UNCHANGED <<dictionary, trie, counter, ret>>

\* `f.counter != m.counter`: the read of m.counter and the branch.  An
\* unstamped node is appended to hits; a stamped node ends the suffix walk
\* (break) and, for the node reached, leads to the walk.
Compare(p) ==
    /\ calls[p].pc = "compare"
    /\ calls' = [calls EXCEPT ![p] =
                    IF calls[p].tmp # counter
                    THEN [@ EXCEPT !.hits = Append(@, trie[calls[p].f].index),
                                   !.pc = "load"]
                    ELSE IF calls[p].own THEN walk(@)
                    ELSE pass(@)]
    /\ UNCHANGED <<dictionary, trie, counter, ret>>

\* `f.counter = m.counter`: the read of m.counter.
Load(p) ==
    /\ calls[p].pc = "load"
    /\ calls' = [calls EXCEPT ![p].tmp = counter, ![p].pc = "stamp"]
    /\ UNCHANGED <<dictionary, trie, counter, ret>>

\* `f.counter = m.counter`: the write of f.counter.
Stamp(p) ==
    /\ calls[p].pc = "stamp"
    /\ trie' = [trie EXCEPT ![calls[p].f].counter = calls[p].tmp]
    /\ calls' = [calls EXCEPT ![p] = walk(@)]
    /\ UNCHANGED <<dictionary, counter, ret>>

\* The return of goroutine p with its hits.
End(p) ==
    /\ calls[p].pc = "scan"
    /\ calls[p].k > Len(calls[p].in)
    /\ calls' = [calls EXCEPT ![p].pc = "done", ![p].n = Idle.n, ![p].k = Idle.k]
    /\ UNCHANGED <<dictionary, trie, counter, ret>>

\* A fresh Matcher over a dictionary of up to ChainDict patterns that can be
\* suffixes of one another, and the first Match call on it.
InitChain ==
    \E d \in DictionariesWithin(Bytes, ChainDict, ChainNodes, {}) : NewMatcher(d)

NextChain ==
    /\ counter = 0
    /\ \E in \in ChainInputs : Match(in)

SpecChain == InitChain /\ [][NextChain]_vars

\* A fresh Matcher and the first Replace call on it, asked for the words it
\* hits or for their counts.
InitReport == \E d \in ReportDictionaries : NewMatcher(d)

NextReport ==
    /\ counter = 0
    /\ \E in \in ReportInputs, replacer \in Replacers, isReplace \in BOOLEAN,
          hitType \in {EnumHitTypeWord, EnumHitTypeWordCount} :
           Replace(in, replacer, isReplace, hitType)

SpecReport == InitReport /\ [][NextReport]_vars

\* The same, asked for the word at each position.
NextIndexWord ==
    /\ counter = 0
    /\ \E in \in ReportInputs, replacer \in Replacers, isReplace \in BOOLEAN :
           Replace(in, replacer, isReplace, EnumHitTypeIndexWord)

SpecIndexWord == InitReport /\ [][NextIndexWord]_vars

\* A fresh Matcher over a larger dictionary and the first Replace call on it,
\* replacing, under each of the hit types Replace accepts.
ReplaceDict == 3
ReplaceNodes == 3
ReplaceInLen == 4

\* The dictionaries of up to ReplaceDict patterns whose trie has up to
\* ReplaceNodes nodes besides the root (one node per distinct non-empty
\* prefix of a pattern).
ReplaceDictionaries ==
    {d \in UNION {[1..n -> ByteStrings(ReplaceNodes)] : n \in 0..ReplaceDict} :
        Cardinality(UNION {{SubSeq(d[i], 1, k) : k \in 1..Len(d[i])} : i \in DOMAIN d})
            <= ReplaceNodes}

InitReplace == \E d \in ReplaceDictionaries : NewMatcher(d)

NextReplace ==
    /\ counter = 0
    /\ \E in \in ByteStrings(ReplaceInLen), replacer \in Replacers,
          hitType \in EnumHitTypeNone..EnumHitTypeIndexWord :
           Replace(in, replacer, TRUE, hitType)

SpecReplace == InitReplace /\ [][NextReplace]_vars

\* One goroutine that makes one Match call on a fresh Matcher, access by
\* access.
\* A fresh Matcher over a dictionary of up to ScanDict patterns that can be
\* suffixes of one another, and one Match call on it, access by access.
InitScan ==
    \E d \in DictionariesWithin(ScanBytes, ScanDict, ScanNodes, {}) : NewMatcher(d)

NextScan ==
    \/ \E in \in ScanInputs : Begin(1, in)
    \/ Add(1)
    \/ Move(1)
    \/ Test(1)
    \/ Compare(1)
    \/ Load(1)
    \/ Stamp(1)
    \/ End(1)

SpecScan == InitScan /\ [][NextScan]_vars

\* Two goroutines that make one Match call each on the same Matcher, their
\* accesses to m.counter and to the stamps interleaved in every order.  The
\* first goroutine scans an input of ConcInputs, the second one of
\* SessionInputs.
NextConc ==
    \/ \E p \in Threads :
          \E in \in (IF p = 1 THEN ConcInputs ELSE SessionInputs) : Begin(p, in)
    \/ \E p \in Threads : Add(p)
    \/ \E p \in Threads : Move(p)
    \/ \E p \in Threads : Test(p)
    \/ \E p \in Threads : Compare(p)
    \/ \E p \in Threads : Load(p)
    \/ \E p \in Threads : Stamp(p)
    \/ \E p \in Threads : End(p)

SpecConc == Init /\ [][NextConc]_vars

\* ---------------------------------------------------------------- claims
\* Brute-force substring search.  An occurrence of the byte string p in the
\* input is a non-empty range of input bytes equal to p; Ends and Starts are
\* the 0-based offsets of its last and of its first byte.
Ends(p, in) ==
    {e \in 0..(Len(in) - 1) :
        Len(p) > 0 /\ e + 1 >= Len(p) /\ SubSeq(in, e - Len(p) + 2, e + 1) = p}

Starts(p, in) == {e - Len(p) + 1 : e \in Ends(p, in)}

Words(d) == {d[i] : i \in DOMAIN d}

Occurring(d, in) == {p \in Words(d) : Ends(p, in) # {}}

Count(seq, x) == Cardinality({k \in DOMAIN seq : seq[k] = x})

Min(S) == CHOOSE x \in S : \A y \in S : x <= y

DistinctNonEmpty(d) ==
    /\ \A i \in DOMAIN d : Len(d[i]) > 0
    /\ \A i, j \in DOMAIN d : i # j => d[i] # d[j]

\* The number of codepoints of the input that precede byte offset s.
RunesBefore(in, s) == RuneCount(SubSeq(in, 1, s))

Matched == ret.op = "Match"

Replaced(hitType) == ret.op = "Replace" /\ ret.err = "nil" /\ ret.hitType = hitType

\* C1 as stated: for a dictionary of distinct non-empty patterns, Match
\* returns one entry per occurrence, so a pattern that ends at k positions
\* is reported k times, and nothing is reported that does not occur.
C1_PerOccurrence ==
    (Matched /\ DistinctNonEmpty(dictionary)) =>
        /\ \A k \in DOMAIN ret.hits : ret.hits[k] \in 0..(Len(dictionary) - 1)
        /\ \A i \in DOMAIN dictionary :
              Count(ret.hits, i - 1) = Cardinality(Ends(dictionary[i], ret.in))

\* C1 amended: for a dictionary of distinct non-empty patterns, Match
\* returns one entry for each pattern that occurs, however many end
\* positions it has, and no entry for a pattern that does not occur.
C1_PerPattern ==
    (Matched /\ DistinctNonEmpty(dictionary)) =>
        /\ \A k \in DOMAIN ret.hits : ret.hits[k] \in 0..(Len(dictionary) - 1)
        /\ \A i \in DOMAIN dictionary :
              Count(ret.hits, i - 1) =
                  IF Ends(dictionary[i], ret.in) = {} THEN 0 ELSE 1

\* A pattern that ends at two or more positions was reported once.
C1_Witness ==
    /\ Matched /\ DistinctNonEmpty(dictionary)
    /\ \E i \in DOMAIN dictionary :
          /\ Cardinality(Ends(dictionary[i], ret.in)) >= 2
          /\ Count(ret.hits, i - 1) = 1

\* C2: the indexes Match returns name exactly the dictionary patterns that
\* occur in the input, and no index is returned twice in one call.
C2_MatchedSet ==
    Matched =>
        /\ \A k \in DOMAIN ret.hits : ret.hits[k] \in 0..(Len(dictionary) - 1)
        /\ \A i \in DOMAIN dictionary :
              (Ends(dictionary[i], ret.in) # {}) <=>
                  (\E k \in DOMAIN ret.hits : dictionary[ret.hits[k] + 1] = dictionary[i])
        /\ \A k, l \in DOMAIN ret.hits : k # l => ret.hits[k] # ret.hits[l]

\* Two patterns were reported, one of them occurring more than once.
C2_Witness ==
    /\ Matched /\ Len(ret.hits) = 2
    /\ \E i \in DOMAIN dictionary : Cardinality(Ends(dictionary[i], ret.in)) >= 2

\* C3: whatever calls were made before, Match returns what a freshly built
\* Matcher for the same dictionary returns for the same input.
C3_NoLeak ==
    Matched => ret.hits = MatchCall(buildTrie(dictionary), 0, ret.in).hits

\* The second call on a Matcher is a Match, it reports a pattern and stamps
\* its node with the second value of the counter.
C3_Witness ==
    /\ Matched /\ counter = 2 /\ ret.hits # <<>>
    /\ \E n \in DOMAIN trie : trie[n].output /\ trie[n].counter = 2

\* C4: when no pattern occurs in the input, Replace with isReplace = true
\* returns the input unchanged, for every input length, and an empty report.
C4_RoundTrip ==
    (ret.op = "Replace" /\ ret.err = "nil" /\ ret.isReplace
        /\ Occurring(dictionary, ret.in) = {}) =>
        /\ ret.out = ret.in
        /\ ret.report.val = <<>>

\* The occurrences of the dictionary in the input, as <<start, pattern>>.
Occurrences(d, in) == {o \in (0..Len(in)) \X Words(d) : o[1] \in Starts(o[2], in)}

Disjoint(d, in) ==
    \A o1, o2 \in Occurrences(d, in) :
        o1 # o2 => (o1[1] + Len(o1[2]) <= o2[1] \/ o2[1] + Len(o2[2]) <= o1[1])

\* The input from byte offset s on, with every occurrence replaced by one
\* replacer per codepoint of the pattern and every other byte copied.
RECURSIVE Masked(_, _, _, _)
Masked(d, in, replacer, s) ==
    IF s >= Len(in) THEN <<>>
    ELSE IF \E p \in Words(d) : s \in Starts(p, in)
         THEN LET p == CHOOSE q \in Words(d) : s \in Starts(q, in)
              IN  repeat(replacer, RuneCount(p)) \o Masked(d, in, replacer, s + Len(p))
         ELSE <<in[s + 1]>> \o Masked(d, in, replacer, s + 1)

\* C5: when the occurrences occupy pairwise disjoint byte ranges, Replace
\* with isReplace = true returns the input with each occurrence replaced by
\* one replacer per codepoint and every other byte copied, the bytes after
\* the last occurrence included.
C5_DisjointReplace ==
    (ret.op = "Replace" /\ ret.err = "nil" /\ ret.isReplace
        /\ Disjoint(dictionary, ret.in)) =>
        ret.out = Masked(dictionary, ret.in, ret.replacer, 0)

\* C6: Replace fails, with an empty text and a nil report, exactly when the
\* hit type is None without isReplace or is outside 0..4.
C6_Errors ==
    ret.op = "Replace" =>
        /\ (ret.err # "nil") <=>
              \/ (ret.hitType = EnumHitTypeNone /\ ~ret.isReplace)
              \/ ret.hitType \notin 0..4
        /\ ret.err # "nil" => (ret.out = <<>> /\ ret.report.nil /\ ret.report.val = <<>>)

\* Replace refused hit type None without isReplace on an input in which a
\* pattern occurs.
C6_Witness ==
    /\ ret.op = "Replace" /\ ret.err # "nil"
    /\ ret.hitType = EnumHitTypeNone /\ ~ret.isReplace
    /\ Occurring(dictionary, ret.in) # {}

\* C7 as stated: under hit type Word the list holds the text of every
\* occurrence, so a pattern that ends at k positions is listed k times.
C7_EveryOccurrence ==
    Replaced(EnumHitTypeWord) =>
        \A p \in Words(dictionary) : Count(ret.report.val, p) = Cardinality(Ends(p, ret.in))

\* C7 amended: under hit type Word the list holds the text of each pattern
\* that occurs exactly once, however many end positions it has, in the
\* order in which the scan first meets the patterns.
C7_OncePerWord ==
    Replaced(EnumHitTypeWord) =>
        /\ \A k \in DOMAIN ret.report.val : ret.report.val[k] \in Occurring(dictionary, ret.in)
        /\ \A p \in Occurring(dictionary, ret.in) : Count(ret.report.val, p) = 1
        /\ \A k, l \in DOMAIN ret.report.val :
              k < l => Min(Ends(ret.report.val[k], ret.in)) <= Min(Ends(ret.report.val[l], ret.in))

\* A word that ends at two or more positions is listed once, after a word
\* first met earlier in the scan.
C7_Witness ==
    /\ Replaced(EnumHitTypeWord) /\ Len(ret.report.val) >= 2
    /\ \E p \in Words(dictionary) :
          Cardinality(Ends(p, ret.in)) >= 2 /\ Count(ret.report.val, p) = 1

\* C8: under hit type WordCount the keys of the map are the pattern texts
\* that occur and each value is the number of end positions of its key.
C8_Counts ==
    Replaced(EnumHitTypeWordCount) =>
        /\ DOMAIN ret.report.val = Occurring(dictionary, ret.in)
        /\ \A p \in Occurring(dictionary, ret.in) :
              ret.report.val[p] = Cardinality(Ends(p, ret.in))

\* Two words were counted, one of them with overlapping occurrences.
C8_Witness ==
    /\ Replaced(EnumHitTypeWordCount)
    /\ Cardinality(DOMAIN ret.report.val) >= 2
    /\ \E p \in DOMAIN ret.report.val :
          /\ ret.report.val[p] >= 2
          /\ \E s1, s2 \in Starts(p, ret.in) : s1 < s2 /\ s2 < s1 + Len(p)

\* Text: a byte string that is the UTF-8 encoding of a sequence of
\* codepoints, so that every rune utf8.RuneCount counts in it is a whole
\* codepoint and none a stray byte.
RECURSIVE WellFormedFrom(_, _)
WellFormedFrom(p, i) ==
    IF i > Len(p) THEN TRUE
    ELSE /\ p[i] < 128 \/ RuneWidth(p, i) > 1
         /\ WellFormedFrom(p, i + RuneWidth(p, i))

WellFormed(p) == WellFormedFrom(p, 1)

TextDictionary == \A i \in DOMAIN dictionary : WellFormed(dictionary[i])

\* The start positions of p in codepoints, in ascending order.
RECURSIVE Ascending(_)
Ascending(S) == IF S = {} THEN <<>> ELSE <<Min(S)>> \o Ascending(S \ {Min(S)})

RunePositions(p, in) == {RunesBefore(in, s) : s \in Starts(p, in)}

\* C9 as stated: under hit type WordIndex the map gives, for each pattern
\* that occurs, the strictly ascending sequence of the start positions of
\* all its occurrences, counted in codepoints, one entry per occurrence,
\* whatever bytes the patterns are made of.
C9_Positions ==
    Replaced(EnumHitTypeWordIndex) =>
        /\ DOMAIN ret.report.val = Occurring(dictionary, ret.in)
        /\ \A p \in Occurring(dictionary, ret.in) :
              /\ ret.report.val[p] = Ascending(RunePositions(p, ret.in))
              /\ Len(ret.report.val[p]) = Cardinality(Ends(p, ret.in))
              /\ \A k, l \in DOMAIN ret.report.val[p] :
                    k < l => ret.report.val[p][k] < ret.report.val[p][l]

\* C9 amended: when every pattern of the dictionary is text, under hit type
\* WordIndex the map gives, for each pattern that occurs in the input (any
\* byte string), the strictly ascending sequence of the start positions of
\* all its occurrences, counted in codepoints, one entry per occurrence.
C9_TextPositions ==
    (TextDictionary /\ Replaced(EnumHitTypeWordIndex)) =>
        /\ DOMAIN ret.report.val = Occurring(dictionary, ret.in)
        /\ \A p \in Occurring(dictionary, ret.in) :
              /\ ret.report.val[p] = Ascending(RunePositions(p, ret.in))
              /\ Len(ret.report.val[p]) = Cardinality(Ends(p, ret.in))
              /\ \A k, l \in DOMAIN ret.report.val[p] :
                    k < l => ret.report.val[p][k] < ret.report.val[p][l]

\* A word occurs twice, the second time after a two-byte codepoint, so its
\* codepoint position differs from its byte offset.
C9_Witness ==
    /\ TextDictionary /\ Replaced(EnumHitTypeWordIndex)
    /\ \E p \in DOMAIN ret.report.val :
          /\ Len(ret.report.val[p]) >= 2
          /\ \E s \in Starts(p, ret.in) : RunesBefore(ret.in, s) < s

\* The longest pattern that starts at byte offset s.
StartingAt(d, in, s) == {p \in Words(d) : s \in Starts(p, in)}

Longest(S) == CHOOSE p \in S : \A q \in S : Len(q) <= Len(p)

AllStarts(d, in) == UNION {Starts(p, in) : p \in Words(d)}

\* C10 as stated: under hit type IndexWord the keys of the map are the
\* codepoint positions at which some pattern starts, and the value of a key
\* is the longest pattern that starts there, the one the scan discovers
\* last, whatever bytes the patterns are made of.
C10_PositionToWord ==
    Replaced(EnumHitTypeIndexWord) =>
        /\ DOMAIN ret.report.val =
              {RunesBefore(ret.in, s) : s \in AllStarts(dictionary, ret.in)}
        /\ \A s \in AllStarts(dictionary, ret.in) :
              ret.report.val[RunesBefore(ret.in, s)] =
                  Longest(StartingAt(dictionary, ret.in, s))

\* C10 amended: when every pattern of the dictionary is text, under hit
\* type IndexWord the keys of the map are the codepoint positions at which
\* some pattern starts in the input (any byte string), and the value of a
\* key is the longest pattern that starts there.
C10_TextPositionToWord ==
    (TextDictionary /\ Replaced(EnumHitTypeIndexWord)) =>
        /\ DOMAIN ret.report.val =
              {RunesBefore(ret.in, s) : s \in AllStarts(dictionary, ret.in)}
        /\ \A s \in AllStarts(dictionary, ret.in) :
              ret.report.val[RunesBefore(ret.in, s)] =
                  Longest(StartingAt(dictionary, ret.in, s))

\* Two patterns start at one position that follows a two-byte codepoint.
C10_Witness ==
    /\ TextDictionary /\ Replaced(EnumHitTypeIndexWord)
    /\ \E s \in AllStarts(dictionary, ret.in) :
          /\ Cardinality(StartingAt(dictionary, ret.in, s)) >= 2
          /\ RunesBefore(ret.in, s) < s

\* ------------------------------------------------- claims on the automaton
IsSuffix(s, b) == Len(s) <= Len(b) /\ SubSeq(b, Len(b) - Len(s) + 1, Len(b)) = s

\* The non-empty proper suffixes of the byte string b.
ProperSuffixes(b) == {From(b, j) : j \in 1..(Len(b) - 1)}

\* The paths of the trie: the prefixes of the dictionary entries.
Paths(d) == UNION {{SubSeq(d[i], 1, k) : k \in 0..Len(d[i])} : i \in DOMAIN d}

NonRoot == {n \in DOMAIN trie : ~trie[n].root}

\* The last dictionary index (0-based) that holds the bytes p.
LastIndex(d, p) == CHOOSE i \in 0..(Len(d) - 1) :
                      d[i + 1] = p /\ \A j \in 0..(Len(d) - 1) : d[j + 1] = p => j <= i

\* C11: dictionary entries with the same bytes share one terminal node, its
\* index is the last of their dictionary indexes, and Match reports the
\* pattern once, under that index and under no earlier one.
C11_LastWriteWins ==
    /\ \A i \in DOMAIN dictionary :
          LET n == findBlice(trie, dictionary[i])
          IN  /\ n # Nil /\ trie[n].output /\ trie[n].b = dictionary[i]
              /\ trie[n].index = LastIndex(dictionary, dictionary[i])
    /\ Matched =>
          \A i \in DOMAIN dictionary :
              /\ Count(ret.hits, i - 1) =
                    IF i - 1 = LastIndex(dictionary, dictionary[i])
                       /\ Ends(dictionary[i], ret.in) # {}
                    THEN 1 ELSE 0

\* Match found a pattern that the dictionary holds twice and reported it
\* once, under the second index.
C11_Witness ==
    /\ Matched /\ Len(dictionary) = 2 /\ dictionary[1] = dictionary[2]
    /\ ret.hits = <<1>>

\* C12: construction never leaves the arena of 1 + sum of the pattern
\* lengths, and it gives every non-root node a fail link and a suffix link.
C12_Construction ==
    /\ Len(trie) <= ArenaSize(dictionary)
    /\ \A n \in NonRoot : trie[n].fail # Nil /\ trie[n].suffix # Nil
    /\ \A n \in DOMAIN trie : trie[n].root <=> n = Root

\* A Matcher built from two patterns that share no prefix fills the arena.
C12_Witness ==
    /\ Len(dictionary) = 2 /\ Len(trie) = ArenaSize(dictionary)
    /\ \E n \in NonRoot : trie[n].fail # Root

\* A Matcher built from an empty pattern and a duplicate of it.
C12_WitnessEmpty ==
    /\ Len(dictionary) = 2 /\ dictionary[1] = <<>> /\ dictionary[2] = <<>>
    /\ Len(trie) = 1 /\ trie[Root].output

\* The pattern that index i (0-based) names and the first offset it ends at.
PatternOf(i) == dictionary[i + 1]

FirstEnd(i) == Min(Ends(PatternOf(i), ret.in))

\* C13: the hits are in the order of a left-to-right scan: a pattern met at
\* an earlier input position comes first, and of the patterns met at one
\* position the longest (the node reached) comes first and the others
\* follow from longest to shortest (its suffix chain).
C13_DiscoveryOrder ==
    Matched =>
        \A k, l \in DOMAIN ret.hits :
            k < l =>
                \/ FirstEnd(ret.hits[k]) < FirstEnd(ret.hits[l])
                \/ /\ FirstEnd(ret.hits[k]) = FirstEnd(ret.hits[l])
                   /\ Len(PatternOf(ret.hits[k])) > Len(PatternOf(ret.hits[l]))

\* Two patterns were first met at the same input position, after a pattern
\* met earlier: the node reached and a pattern on its suffix chain.
C13_Witness ==
    /\ Matched /\ Len(ret.hits) >= 2
    /\ \E k \in DOMAIN ret.hits :
          /\ k + 1 \in DOMAIN ret.hits
          /\ FirstEnd(ret.hits[k]) = FirstEnd(ret.hits[k + 1])
          /\ FirstEnd(ret.hits[k]) > 0

\* The nodes n, fail(n), fail(fail(n)), ... up to the root.
RECURSIVE FailChain(_)
FailChain(n) == IF trie[n].root \/ trie[n].fail = Nil THEN <<n>>
                ELSE <<n>> \o FailChain(trie[n].fail)

\* C18: fails[c] of every node is defined and is the first node of its fail
\* chain that has a child for c, or the root when none has; the fail chain
\* of every node ends at the root.
C18_FailsTable ==
    \A n \in DOMAIN trie :
        LET chain == FailChain(n)
        IN  /\ trie[chain[Len(chain)]].root
            /\ \A c \in Bytes :
                  LET with == {k \in DOMAIN chain : trie[chain[k]].child[c] # Nil}
                  IN  /\ trie[n].fails[c] # Nil
                      /\ trie[n].fails[c] = IF with = {} THEN Root ELSE chain[Min(with)]

\* A node takes fails[c] from a node in the middle of its fail chain: not
\* from itself and not from the root.
C18_Witness ==
    \E n \in NonRoot, c \in Bytes :
        /\ trie[n].fails[c] # n /\ ~trie[trie[n].fails[c]].root
        /\ trie[trie[n].fails[c]].child[c] # Nil

\* The longest of a non-empty set of byte strings of different lengths.
LongestOf(S) == CHOOSE p \in S : \A q \in S : Len(q) <= Len(p)

\* C19: the fail link of a non-root node is the node of the longest proper
\* suffix of its path that is a path of the trie, the root when there is
\* none; a child of the root fails to the root, and a fail target has a
\* shorter path than its source.
C19_FailLinks ==
    \A n \in NonRoot :
        LET cands == ProperSuffixes(trie[n].b) \cap Paths(dictionary)
        IN  /\ trie[n].fail # Nil
            /\ trie[trie[n].fail].b = IF cands = {} THEN <<>> ELSE LongestOf(cands)
            /\ Len(trie[n].b) = 1 => trie[n].fail = Root
            /\ Len(trie[trie[n].fail].b) < Len(trie[n].b)

\* A node whose path has two proper suffixes in the trie fails to the
\* longer one.
C19_Witness ==
    \E n \in NonRoot :
        /\ Cardinality(ProperSuffixes(trie[n].b) \cap Paths(dictionary)) >= 2
        /\ Len(trie[trie[n].fail].b) = Len(trie[n].b) - 1

\* The nodes suffix(n), suffix(suffix(n)), ... before the root.
RECURSIVE SuffixChain(_)
SuffixChain(n) == IF trie[n].root \/ trie[n].suffix = Nil \/ trie[trie[n].suffix].root
                  THEN <<>>
                  ELSE <<trie[n].suffix>> \o SuffixChain(trie[n].suffix)

\* The byte strings of S from the longest to the shortest.
RECURSIVE Descending(_)
Descending(S) == IF S = {} THEN <<>>
                 ELSE <<LongestOf(S)>> \o Descending(S \ {LongestOf(S)})

\* C20: the suffix link of a non-root node is the node of the longest
\* proper suffix of its path that is a dictionary pattern, the root when
\* there is none, and the suffix links from a node visit the dictionary
\* patterns that are proper suffixes of its path, longest first.
C20_SuffixLinks ==
    \A n \in NonRoot :
        LET cands == ProperSuffixes(trie[n].b) \cap Words(dictionary)
            chain == SuffixChain(n)
        IN  /\ trie[n].suffix # Nil
            /\ trie[trie[n].suffix].b = IF cands = {} THEN <<>> ELSE LongestOf(cands)
            /\ [k \in DOMAIN chain |-> trie[chain[k]].b] = Descending(cands)
            /\ \A k \in DOMAIN chain : trie[chain[k]].output

\* Two dictionary patterns are proper suffixes of the path of one node: its
\* suffix link goes to the longer one, and from there to the shorter one.
C20_Witness ==
    \E n \in NonRoot :
        /\ Cardinality(ProperSuffixes(trie[n].b) \cap Words(dictionary)) >= 2
        /\ Len(SuffixChain(n)) >= 2
        /\ Len(trie[SuffixChain(n)[1]].b) > Len(trie[SuffixChain(n)[2]].b)

\* ------------------------------------------- claims on the stepwise scan
\* The result of Match(in) on a Matcher that serves no other call.
AloneHits(in) == MatchCall(buildTrie(dictionary), 0, in).hits

\* The indexes Match is to report for the input: the last index of each
\* pattern that occurs.
DueIndexes(in) == {LastIndex(dictionary, p) : p \in Occurring(dictionary, in)}

Omits(hits, in) == \E i \in DueIndexes(in) : Count(hits, i) = 0

Repeats(hits) == \E k, l \in DOMAIN hits : k # l /\ hits[k] = hits[l]

\* C15: the result of a Match call differs from the result of the same call
\* run alone only when another Match call on the Matcher was in progress
\* during it; such a call can omit a pattern that occurs and can report a
\* pattern twice (the witness).
C15_AloneUnlessOverlapped ==
    \A p \in Threads :
        (calls[p].pc = "done" /\ ~calls[p].overlap) =>
            /\ calls[p].hits = AloneHits(calls[p].in)
            /\ ~Omits(calls[p].hits, calls[p].in)
            /\ ~Repeats(calls[p].hits)

\* Two calls overlapped: one returned a pattern twice, the other left out
\* a pattern that occurs in its input.
C15_Witness ==
    \E p, q \in Threads :
        /\ calls[p].pc = "done" /\ calls[p].overlap
        /\ calls[q].pc = "done" /\ calls[q].overlap
        /\ Repeats(calls[p].hits) /\ calls[p].hits # AloneHits(calls[p].in)
        /\ Omits(calls[q].hits, calls[q].in) /\ calls[q].hits # AloneHits(calls[q].in)

Stamped(n) == trie[n].counter = counter

\* C17: between the passes of a Match call that runs alone, a node that
\* carries the stamp of the call has every node of its suffix chain stamped
\* too, so every pattern that ends at the position just scanned has been
\* reported in this call although the walk stops at a stamped node.
C17_StampedChains ==
    calls[1].pc \in {"scan", "done"} =>
        /\ \A n \in NonRoot :
              Stamped(n) =>
                  \A k \in DOMAIN SuffixChain(n) : Stamped(SuffixChain(n)[k])
        /\ LET f == calls[1].n
           IN  (calls[1].k > 1 /\ ~trie[f].root) =>
                   /\ trie[f].output => Stamped(f)
                   /\ \A k \in DOMAIN SuffixChain(f) : Stamped(SuffixChain(f)[k])

\* The last pass reported the node it reached and stopped its walk at once,
\* on a suffix node stamped by an earlier pass, short of a further pattern
\* of the chain, which an earlier pass had reported.
C17_Witness ==
    LET f == calls[1].n
    IN  /\ calls[1].pc = "scan" /\ calls[1].k > 1
        /\ ~trie[f].root /\ trie[f].output
        /\ Len(SuffixChain(f)) >= 2
        /\ Len(calls[1].hits) >= 3
        /\ calls[1].hits[Len(calls[1].hits)] = trie[f].index
        /\ \A k \in DOMAIN SuffixChain(f) :
              /\ Stamped(SuffixChain(f)[k])
              /\ \E l \in 1..(Len(calls[1].hits) - 1) :
                    calls[1].hits[l] = trie[SuffixChain(f)[k]].index

\* ------------------------------------------------ claims on replacement
Replacing == ret.op = "Replace" /\ ret.err = "nil" /\ ret.isReplace

\* C14: Replace with isReplace = true records the same spans and returns
\* the same text under each hit type 0..4 for the same dictionary, input
\* and replacer.
C14_SameUnderEveryMode ==
    Replacing =>
        \A h \in EnumHitTypeNone..EnumHitTypeIndexWord :
            LET r == ReplaceCall(buildTrie(dictionary), 0, ret.in, ret.replacer, TRUE, h)
            IN  r.hits = ret.spans /\ r.out = ret.out

\* The 0-based offsets of the input bytes that the replacement loop from
\* key j on and the copy after it write to the output: in[lastIndex:index]
\* before a word, in[lastIndex:] at the end.
RECURSIVE Copied(_, _, _, _, _)
Copied(in, hits, keys, j, lastIndex) ==
    IF j > Len(keys)
    THEN IF lastIndex < Len(in) - 1 THEN lastIndex..(Len(in) - 1) ELSE {}
    ELSE LET index == keys[j]
         IN  (IF index > lastIndex THEN lastIndex..(index - 1) ELSE {})
             \cup Copied(in, hits, keys, j + 1, index + Len(hits[index]))

\* The input offsets that the span of the word recorded at index covers.
Covered(hits, index) == index..(index + Len(hits[index]) - 1)

\* C16: no input byte that Replace copies to its output lies inside a span
\* it replaces, also when the spans overlap or one lies inside another.
C16_CopiesOutsideSpans ==
    Replacing =>
        \A o \in Copied(ret.in, ret.spans, sortInts(DOMAIN ret.spans), 1, 0) :
            \A index \in DOMAIN ret.spans : o \notin Covered(ret.spans, index)

==========================================================================
